---- MODULE Spec2Model ----
(***************************************************************************)
(* Haka: a scrolling audio waveform bar visualisation (class Haka).        *)
(*                                                                         *)
(* Numbers.  The program computes with JavaScript doubles; the model keeps *)
(* every quantity an exact integer:                                        *)
(*   - times are milliseconds of performance.now();                        *)
(*   - a sample s of the Float32Array is stored in hundredths, s * 100;    *)
(*   - bar.height is stored as the numerator of a fraction over            *)
(*     HeightDen = expandDuration^3 (the easing curves are cubic in        *)
(*     age / expandDuration);                                              *)
(*   - bar.y is stored as the numerator of a fraction over 2 * HeightDen.  *)
(* Within one state the bars stand at pairwise different positions, so a   *)
(* bar is followed across one run of animate() by its position.            *)
(***************************************************************************)
EXTENDS Integers, Sequences, FiniteSets, TLC

VARIABLES
    width, height,            \* canvas.offsetWidth / offsetHeight
    timeOffset, barWidth, barGap, scrollSpeed, easing, expandDuration,
    noiseThreshold,           \* this.noiseThreshold, in hundredths
    bars,                     \* this.bars
    frame,                    \* the fillRect calls since the last clearRect
    analyser,                 \* this.analyser is set
    frequencyArray,           \* this.frequencyArray (<<>> while undefined)
    animationFrameId,         \* this.animationFrameId (0 while undefined)
    lastDataCollectionTime,   \* this.lastDataCollectionTime
    now,                      \* performance.now()
    pending,                  \* handles of the animation frame callbacks not yet run
    requests,                 \* getUserMedia promises, in call order
    errorLog,                 \* number of console.error reports
    lastOp,                   \* the operation that produced this state
    stopped,                  \* stop() was called and start() was not called since
    dropped,                  \* recorded bars that the operation discarded
    attachedAt,               \* time of the first soundAllowed() (-1 before it)
    startCalls                \* number of start() calls

vars == <<width, height, timeOffset, barWidth, barGap, scrollSpeed, easing,
          expandDuration, noiseThreshold, bars, frame, analyser,
          frequencyArray, animationFrameId, lastDataCollectionTime, now,
          pending, requests, errorLog, lastOp,
          stopped, dropped, attachedAt, startCalls>>

config == <<width, height, timeOffset, barWidth, barGap, scrollSpeed, easing,
            expandDuration, noiseThreshold>>

----------------------------------------------------------------------------
(* Bounds of the exploration *)
MaxTime == 400      \* the clock stops advancing here
MaxStarts == 1      \* start() calls
BufLen == 2         \* samples read per buffer (fftSize in the program)

ClockSteps == {50}
\* sample values, in hundredths
Samples == {-50, 0, 42}
\* the buffers read: the first two samples vary, the later ones repeat the
\* second
Buffers ==
    {buf \in [1..BufLen -> Samples] : \A i \in 3..BufLen : buf[i] = buf[2]}

\* <<canvas width, scrollSpeed, easing, noiseThreshold>> of the explored
\* instances
Canvases ==
    {<<13, 4, "linear", 0>>, <<13, 2, "easeInOutCubic", 1>>, <<0, 1, "linear", 1>>}

----------------------------------------------------------------------------
(* Arithmetic of the program *)

Cube(n) == n * n * n

\* variant: rounds down
FloorDiv(n, d) == n \div d

\* Math.ceil(n / d) for n >= 0, d > 0
Ceil(n, d) == IF n % d = 0 THEN n \div d ELSE (n \div d) + 1

HeightDen == Cube(expandDuration)

\* variant: progress not clamped to 1
RawProgressUnclamped(age) == age

\* Math.min(age / expandDuration, 1), as a numerator over expandDuration
RawProgress(age) == IF age < expandDuration THEN age ELSE expandDuration

\* easeInOutCubic(x), x = a / expandDuration, as a numerator over HeightDen:
\*   x < 0.5 ? 4 x^3 : 1 - (-2x + 2)^3 / 2
EaseInOutCubic(a) ==
    IF 2 * a < expandDuration
    THEN 4 * Cube(a)
    ELSE HeightDen - 4 * Cube(expandDuration - a)

\* the linear easing t => t, as a numerator over HeightDen
Linear(a) == a * expandDuration * expandDuration

\* this.easing(rawProgress), where it returns.  The option "linearBelowOne"
\* stands for a caller's function t => { if (t >= 1) throw ...; return t }
Easing(a) ==
    IF easing \in {"linear", "linearBelowOne"} THEN Linear(a)
    ELSE EaseInOutCubic(a)

\* this.easing(rawProgress) throws
EasingThrows(a) == easing = "linearBelowOne" /\ a >= expandDuration

\* the max loop of animate(): max starts at 0, only a larger sample replaces it
RECURSIVE MaxLoop(_, _, _)
MaxLoop(buf, i, max) ==
    IF i > Len(buf) THEN max
    ELSE MaxLoop(buf, i + 1, IF buf[i] > max THEN buf[i] ELSE max)

\* Math.floor(max * this.height * 1.2), max in hundredths
BarHeight(buf) == (MaxLoop(buf, 1, 0) * height * 12) \div 1000

----------------------------------------------------------------------------
(* The bar array *)

Placeholder(i) ==
    [x |-> i * (barWidth + barGap), y |-> 0, height |-> 0, targetHeight |-> 0,
     created |-> 0, status |-> "placeholder", width |-> barWidth]

Recorded(buf, t) ==
    [x |-> width, y |-> 0, height |-> 0, targetHeight |-> BarHeight(buf),
     created |-> t, status |-> "recorded", width |-> barWidth]

VisibleSegmentCount == Ceil(width, barWidth + barGap)

\* the push loop of initialize(), i = 0 .. visibleSegmentCount - 1
RECURSIVE SeedLoop(_, _)
SeedLoop(bs, i) ==
    IF i < VisibleSegmentCount
    THEN SeedLoop(Append(bs, Placeholder(i)), i + 1)
    ELSE bs

\* variant: the bar array is not emptied first
SeededAdditive(bs) == SeedLoop(bs, 0)

\* initialize() applied to the bar array bs: this.bars = [], then the pushes
Seeded(bs) == SeedLoop(<<>>, 0)

\* variant: bars.pop() in place of bars.splice(i, 1)
SplicePop(bs, i) == SubSeq(bs, 1, Len(bs) - 1)

\* bars.splice(i, 1)
Splice(bs, i) == SubSeq(bs, 1, i - 1) \o SubSeq(bs, i + 1, Len(bs))

\* variant: age taken from the last sample instead of the bar's creation
GrowSinceLastSample(bar) ==
    IF bar.status = "placeholder" THEN bar
    ELSE LET h == bar.targetHeight
                      * Easing(RawProgress(now - lastDataCollectionTime'))
         IN  [bar EXCEPT !.height = h, !.y = height * HeightDen - h]

\* the for loop of animate() is left by an exception at this bar
Throws(bar) ==
    /\ bar.status = "recorded"
    /\ EasingThrows(RawProgress(now - bar.created))

\* the index at which the for loop over bs is left by an exception (0: the
\* loop runs to its end); the loop visits the highest index first
ThrowIndex(bs) ==
    LET thrown == {i \in 1..Len(bs) : Throws(bs[i])}
    IN  IF thrown = {} THEN 0 ELSE CHOOSE i \in thrown : \A j \in thrown : j <= i

\* the body of the for loop of animate() for one bar: grow, then scroll
Grow(bar) ==
    IF bar.status = "placeholder" THEN bar
    ELSE LET h == bar.targetHeight * Easing(RawProgress(now - bar.created))
         IN  [bar EXCEPT !.height = h, !.y = height * HeightDen - h]

\* fillRect(bar.x, this.height / 2 - 1, bar.width, 2) in the given colour;
\* y is a numerator over 2 * HeightDen, h a numerator over HeightDen
Dot(bar, colour) ==
    [x |-> bar.x, y |-> (height - 2) * HeightDen, w |-> bar.width,
     h |-> 2 * HeightDen, colour |-> colour]

\* variant: the threshold is compared with the current height
PaintByCurrentHeight(bar) ==
    IF bar.status = "placeholder" THEN Dot(bar, "blackDotColor")
    ELSE IF bar.height * 100 < height * noiseThreshold * HeightDen
         THEN Dot(bar, "dotColor")
         ELSE [x |-> bar.x, y |-> bar.y, w |-> bar.width, h |-> bar.height,
               colour |-> "barColor"]

\* what the for loop of animate() paints for one bar, after it has grown:
\* bar.targetHeight < this.height * this.noiseThreshold decides dot or bar
Paint(bar) ==
    IF bar.status = "placeholder" THEN Dot(bar, "blackDotColor")
    ELSE IF bar.targetHeight * 100 < height * noiseThreshold
         THEN Dot(bar, "dotColor")
         ELSE [x |-> bar.x, y |-> bar.y, w |-> bar.width, h |-> bar.height,
               colour |-> "barColor"]

Scroll(bar) == [bar EXCEPT !.x = @ - scrollSpeed]

\* variant: a bar is removed once it is a whole gap beyond the boundary
OffScreenByGap(bar) == bar.x + bar.width < -barGap

\* variant: a bar whose trailing edge is on the boundary is removed too
OffScreenAtEdge(bar) == bar.x + bar.width <= 0

OffScreen(bar) == bar.x + bar.width < 0

\* for (let i = bars.length - 1; i >= 0; i--) { ...; splice } (indices from 1)
\* the frame that the for loop of animate() paints, newest bar first; the
\* loop visits every bar of bs once, before it is scrolled
Painted(bs) ==
    [k \in 1..(Len(bs) - ThrowIndex(bs)) |-> Paint(Grow(bs[Len(bs) + 1 - k]))]

\* drawInitialFrame(): every bar as a placeholder dot, oldest first
InitialFrame(bs) == [k \in 1..Len(bs) |-> Dot(bs[k], "blackDotColor")]

\* variant: the loop runs from the oldest bar to the newest, so that the
\* bar behind a removed one is passed over
RECURSIVE SweepForwardFrom(_, _)
SweepForwardFrom(bs, i) ==
    IF i > Len(bs) THEN bs
    ELSE LET bar == Scroll(Grow(bs[i]))
             bs1 == [bs EXCEPT ![i] = bar]
         IN  SweepForwardFrom(IF OffScreen(bar) THEN Splice(bs1, i) ELSE bs1,
                              i + 1)

SweepForward(bs, i) == SweepForwardFrom(bs, 1)

RECURSIVE Sweep(_, _)
Sweep(bs, i) ==
    IF i < 1 \/ Throws(bs[i]) THEN bs
    ELSE LET bar == Scroll(Grow(bs[i]))
             bs1 == [bs EXCEPT ![i] = bar]
         IN  Sweep(IF OffScreen(bar) THEN Splice(bs1, i) ELSE bs1, i - 1)

----------------------------------------------------------------------------
(* animate() *)

LastX == IF Len(bars) > 0 THEN bars[Len(bars)].x ELSE width

\* variant: the gap is left out of the edge test
EdgeRoomNoGap == width - LastX >= barWidth

EdgeRoom == width - LastX >= barWidth + barGap

\* the sampling condition, with the analyser and the last sample time as
\* animate() finds them
\* variant: samples already when exactly the interval has elapsed
SamplingAtInterval(an, last) == EdgeRoom /\ an /\ now - last >= timeOffset

Sampling(an, last) == EdgeRoom /\ an /\ now - last > timeOffset

\* requestAnimationFrame: a handle no live callback and no stored handle uses
FreshHandle(live) ==
    CHOOSE h \in 1..(Cardinality(live) + 2) :
        /\ h \notin live
        /\ \A k \in 1..(h - 1) : k \in live

\* One run of animate(): an, last, buf are this.analyser, the last sample
\* time and this.frequencyArray on entry; ran is the set of callbacks that
\* this run consumes.  An exception in the for loop leaves animate() before
\* requestAnimationFrame is reached.
Animate(an, last, buf, ran) ==
    LET pushed == IF Sampling(an, last)
                  THEN Append(bars, Recorded(frequencyArray', now))
                  ELSE bars
        live == (pending \ ran) \cup ({animationFrameId} \ (ran \cup {0}))
        h == FreshHandle(live)
    IN  /\ IF Sampling(an, last)
           THEN /\ lastDataCollectionTime' = now
                /\ \E data \in Buffers : frequencyArray' = data
           ELSE /\ lastDataCollectionTime' = last
                /\ frequencyArray' = buf
        /\ bars' = Sweep(pushed, Len(pushed))
        /\ frame' = Painted(pushed)
        /\ animationFrameId' = IF ThrowIndex(pushed) > 0 THEN animationFrameId
                               ELSE h
        /\ pending' = (pending \ ran)
                           \cup (IF ThrowIndex(pushed) > 0 THEN {} ELSE {h})

----------------------------------------------------------------------------
(* Operations *)

Init ==
    /\ \E c \in Canvases :
           /\ width = c[1] /\ scrollSpeed = c[2]
           /\ easing = c[3] /\ noiseThreshold = c[4]
    /\ frame = <<>>
    /\ height = 100
    /\ timeOffset = 100
    /\ barWidth = 3
    /\ barGap = 10
    /\ expandDuration = 200
    /\ bars = <<>>
    /\ analyser = FALSE
    /\ frequencyArray = <<>>
    /\ animationFrameId = 0
    /\ lastDataCollectionTime = 0
    /\ now = 0
    /\ pending = {}
    /\ requests = <<>>
    /\ errorLog = 0
    /\ lastOp = "constructor"
    /\ stopped = FALSE
    /\ dropped = 0
    /\ attachedAt = -1
    /\ startCalls = 0

\* Time passes between two operations.  The program reads the clock for the
\* first time in soundAllowed() and uses only differences of readings, so
\* the origin of the time axis is put at the first attachment.
ClockAdvance ==
    /\ analyser
    /\ \E dt \in ClockSteps : now + dt <= MaxTime /\ now' = now + dt
    /\ dropped' = 0
    /\ UNCHANGED <<config, bars, frame, analyser, frequencyArray, animationFrameId,
                   lastDataCollectionTime, pending, requests, errorLog,
                   stopped, attachedAt, startCalls>>
    /\ lastOp' = "clock"

initialize ==
    /\ bars' = Seeded(bars)
    /\ frame' = InitialFrame(bars')
    /\ dropped' = Cardinality({i \in 1..Len(bars) : bars[i].status = "recorded"})
    /\ lastOp' = "initialize"
    /\ UNCHANGED <<config, analyser, frequencyArray, animationFrameId,
                   lastDataCollectionTime, now, pending, requests, errorLog,
                   stopped, attachedAt, startCalls>>

start ==
    /\ startCalls < MaxStarts
    /\ startCalls' = startCalls + 1
    /\ requests' = Append(requests, "pending")
    /\ stopped' = FALSE
    /\ lastOp' = "start"
    /\ dropped' = 0
    /\ UNCHANGED <<config, bars, frame, analyser, frequencyArray, animationFrameId,
                   lastDataCollectionTime, now, pending, errorLog,
                   attachedAt>>

soundAllowed(k) ==
    /\ requests[k] = "pending"
    /\ requests' = [requests EXCEPT ![k] = "granted"]
    /\ analyser' = TRUE
    /\ attachedAt' = IF analyser THEN attachedAt ELSE now
    /\ Animate(TRUE, now, [i \in 1..BufLen |-> 0], {})
    /\ errorLog' = IF ThrowIndex(bars) > 0 THEN errorLog + 1 ELSE errorLog
    /\ lastOp' = "soundAllowed"
    /\ dropped' = 0
    /\ UNCHANGED <<config, now, stopped, startCalls>>

\* variant: a denied request is made again
soundNotAllowedRetry(k) ==
    /\ requests[k] = "pending"
    /\ requests' = Append([requests EXCEPT ![k] = "denied"], "pending")
    /\ errorLog' = errorLog + 1
    /\ lastOp' = "soundNotAllowed"
    /\ dropped' = 0
    /\ UNCHANGED <<config, bars, frame, analyser, frequencyArray, animationFrameId,
                   lastDataCollectionTime, now, pending, stopped,
                   attachedAt, startCalls>>

soundNotAllowed(k) ==
    /\ requests[k] = "pending"
    /\ requests' = [requests EXCEPT ![k] = "denied"]
    /\ errorLog' = errorLog + 1
    /\ lastOp' = "soundNotAllowed"
    /\ dropped' = 0
    /\ UNCHANGED <<config, bars, frame, analyser, frequencyArray, animationFrameId,
                   lastDataCollectionTime, now, pending, stopped,
                   attachedAt, startCalls>>

\* variant: the callback that has run stays scheduled
animateStaysScheduled(h) ==
    /\ h \in pending
    /\ Animate(analyser, lastDataCollectionTime, frequencyArray, {})
    /\ lastOp' = "animate"
    /\ dropped' = 0
    /\ UNCHANGED <<config, analyser, now, requests, errorLog, stopped,
                   attachedAt, startCalls>>

\* the animation frame callback () => this.animate()
animate(h) ==
    /\ h \in pending
    /\ Animate(analyser, lastDataCollectionTime, frequencyArray, {h})
    /\ lastOp' = "animate"
    /\ dropped' = 0
    /\ UNCHANGED <<config, analyser, now, requests, errorLog, stopped,
                   attachedAt, startCalls>>

stop ==
    /\ pending' = IF animationFrameId # 0 THEN pending \ {animationFrameId}
                  ELSE pending
    /\ stopped' = TRUE
    /\ lastOp' = "stop"
    /\ dropped' = 0
    /\ UNCHANGED <<config, bars, frame, analyser, frequencyArray, animationFrameId,
                   lastDataCollectionTime, now, requests, errorLog,
                   attachedAt, startCalls>>

Next ==
    \/ ClockAdvance
    \/ initialize
    \/ start
    \/ \E k \in 1..Len(requests) : soundAllowed(k)
    \/ \E k \in 1..Len(requests) : soundNotAllowed(k)
    \/ \E h \in pending : animate(h)
    \/ stop

Spec == Init /\ [][Next]_vars

\* The browser runs every requested animation frame callback and time goes
\* on (up to MaxTime).
LiveSpec ==
    /\ Init
    /\ [][Next]_vars
    /\ WF_vars(ClockAdvance)
    /\ WF_vars(\E h \in pending : animate(h))

\* start() called again and again, on the canvas of width 0
MaxReentry == 2

startReentrant ==
    /\ startCalls < MaxReentry
    /\ startCalls' = startCalls + 1
    /\ requests' = Append(requests, "pending")
    /\ stopped' = FALSE
    /\ lastOp' = "start"
    /\ dropped' = 0
    /\ UNCHANGED <<config, bars, frame, analyser, frequencyArray,
                   animationFrameId, lastDataCollectionTime, now, pending,
                   errorLog, attachedAt>>

ReentryInit == Init /\ width = 0

ReentryNext ==
    \/ ClockAdvance
    \/ initialize
    \/ startReentrant
    \/ \E k \in 1..Len(requests) : soundAllowed(k)
    \/ \E k \in 1..Len(requests) : soundNotAllowed(k)
    \/ \E h \in pending : animate(h)
    \/ stop

ReentrySpec == ReentryInit /\ [][ReentryNext]_vars

\* an instance constructed with an easing function that throws at progress 1
ThrowInit ==
    /\ width = 13
    /\ scrollSpeed = 2
    /\ easing = "linearBelowOne"
    /\ noiseThreshold = 1
    /\ frame = <<>>
    /\ height = 100
    /\ timeOffset = 100
    /\ barWidth = 3
    /\ barGap = 10
    /\ expandDuration = 200
    /\ bars = <<>>
    /\ analyser = FALSE
    /\ frequencyArray = <<>>
    /\ animationFrameId = 0
    /\ lastDataCollectionTime = 0
    /\ now = 0
    /\ pending = {}
    /\ requests = <<>>
    /\ errorLog = 0
    /\ lastOp = "constructor"
    /\ stopped = FALSE
    /\ dropped = 0
    /\ attachedAt = -1
    /\ startCalls = 0

ThrowSpec == ThrowInit /\ [][Next]_vars

\* initialize() on its own, over a range of canvas widths and bar spacings
MaxSeedWidth == 100
SeedSpacings == {<<3, 10>>, <<1, 2>>, <<4, 1>>}

SeedInit ==
    /\ width \in 0..MaxSeedWidth
    /\ \E sp \in SeedSpacings : barWidth = sp[1] /\ barGap = sp[2]
    /\ height = 100
    /\ timeOffset = 100
    /\ scrollSpeed = 1
    /\ easing = "easeInOutCubic"
    /\ noiseThreshold = 1
    /\ frame = <<>>
    /\ expandDuration = 200
    /\ bars = <<>>
    /\ analyser = FALSE
    /\ frequencyArray = <<>>
    /\ animationFrameId = 0
    /\ lastDataCollectionTime = 0
    /\ now = 0
    /\ pending = {}
    /\ requests = <<>>
    /\ errorLog = 0
    /\ lastOp = "constructor"
    /\ stopped = FALSE
    /\ dropped = 0
    /\ attachedAt = -1
    /\ startCalls = 0

SeedNext == initialize

SeedSpec == SeedInit /\ [][SeedNext]_vars

TypeOK ==
    /\ now \in 0..MaxTime
    /\ pending \subseteq 1..(MaxStarts + 1)
    /\ \A i \in 1..Len(bars) : bars[i].status \in {"placeholder", "recorded"}

----------------------------------------------------------------------------
(* Properties *)

\* a run of animate() has just ended (soundAllowed() ends with one)
AfterTick == lastOp \in {"animate", "soundAllowed"}

IsRecorded(bar) == bar.status = "recorded"

BarIndices == 1..Len(bars)

\* C1: once stop() has been called (and start() not called again), no run
\* of animate() takes place any more, so no frame is painted and the
\* timeline is frozen; this includes stop() between start() and the grant.
C1_NoTickAfterStop == ~(stopped /\ AfterTick)

\* C2: a run of animate() with the audio source attached appends a recorded
\* bar (at the right edge, created now) exactly when more than the sample
\* interval has elapsed since the last sample and no recorded bar lies
\* within barWidth + barGap of the right edge, whatever else the timeline
\* holds (nothing, or a placeholder at its tail).
C2_Due ==
    /\ now - lastDataCollectionTime > timeOffset
    /\ \A i \in BarIndices :
           IsRecorded(bars[i]) => width - bars[i].x >= barWidth + barGap

C2_Appended ==
    /\ Len(bars') > 0
    /\ LET new == bars'[Len(bars')]
       IN  /\ new.status = "recorded"
           /\ new.created = now
           /\ new.x = width - scrollSpeed
    /\ \A i \in BarIndices : bars[i].x # width

C2_AppendIff ==
    [][(lastOp' = "animate" /\ analyser) => (C2_Appended <=> C2_Due)]_vars

\* C3: any two adjacent recorded bars are at least barGap apart, trailing
\* edge to leading edge.
C3_Spacing ==
    \A i \in 1..(Len(bars) - 1) :
        (IsRecorded(bars[i]) /\ IsRecorded(bars[i + 1]))
            => bars[i + 1].x - (bars[i].x + bars[i].width) >= barGap

\* two adjacent recorded bars, the second one sampled in the first run of
\* animate() that found room for it
C3_Witness ==
    \E i \in 1..(Len(bars) - 1) :
        /\ IsRecorded(bars[i]) /\ IsRecorded(bars[i + 1])
        /\ bars[i + 1].x - bars[i].x < barWidth + barGap + scrollSpeed

\* C4: any two recorded bars were created more than the sample interval
\* apart, and every recorded bar (so the first one) more than the sample
\* interval after the audio source was attached; with interval 100, ticks at
\* t and t + 50 therefore create at most one recorded bar between them.
C4_Gating ==
    /\ \A i \in BarIndices : \A j \in BarIndices :
           (i < j /\ IsRecorded(bars[i]) /\ IsRecorded(bars[j]))
               => bars[j].created - bars[i].created > timeOffset
    /\ \A i \in BarIndices :
           IsRecorded(bars[i])
               => attachedAt >= 0 /\ bars[i].created - attachedAt > timeOffset
    /\ timeOffset = 100
           => \A i \in BarIndices :
                  LET t == bars[i].created
                  IN  Cardinality({j \in BarIndices :
                          /\ IsRecorded(bars[j])
                          /\ bars[j].created \in {t, t + 50}}) <= 1

\* two recorded bars sampled as early and as close together as the gate allows
C4_Witness ==
    \E i \in BarIndices : \E j \in BarIndices :
        /\ IsRecorded(bars[i]) /\ IsRecorded(bars[j])
        /\ bars[i].created = attachedAt + timeOffset + 50
        /\ bars[j].created = bars[i].created + timeOffset + 50

\* bar c of the next state is bar b of this state, scrolled
Scrolled(b, c) ==
    /\ c.x = b.x - scrollSpeed
    /\ c.status = b.status
    /\ c.created = b.created
    /\ c.targetHeight = b.targetHeight
    /\ c.width = b.width

\* bar c of the next state is the bar that this run of animate() appended
Fresh(c) ==
    /\ c.status = "recorded"
    /\ c.created = now
    /\ c.x = width - scrollSpeed

C5_Step ==
    /\ \A i \in BarIndices :
           (bars[i].x - scrollSpeed + bars[i].width < 0)
               <=> ~(\E j \in 1..Len(bars') : Scrolled(bars[i], bars'[j]))
    /\ \A j \in 1..Len(bars') :
           \/ \E i \in BarIndices : Scrolled(bars[i], bars'[j])
           \/ Fresh(bars'[j])

C5_OnSurface == \A i \in BarIndices : bars[i].x + bars[i].width >= 0

\* C5: a run of animate() removes a bar exactly when its scrolled position
\* has position + width < 0 (a bar with position + width = 0 stays) and
\* inserts nothing but the bar it samples; so in every state every bar has
\* position + width >= 0, and a bar that was removed, whose position could
\* only have decreased further, is never in the timeline again.
C5_CullCorrect ==
    /\ [][lastOp' \in {"animate", "soundAllowed"} => C5_Step]_vars
    /\ []C5_OnSurface

\* the placeholders are gone and a recorded bar has its trailing edge
\* exactly on the left boundary after a run of animate()
C5_Witness ==
    /\ AfterTick
    /\ Len(bars) > 0
    /\ IsRecorded(bars[1])
    /\ bars[1].x + bars[1].width = 0

\* C6: every bar has 0 <= currentHeight <= targetHeight (heights as
\* numerators over expandDuration^3).
C6_HeightBound ==
    \A i \in BarIndices :
        /\ 0 <= bars[i].height
        /\ bars[i].height <= bars[i].targetHeight * Cube(expandDuration)

\* a recorded bar older than the expand duration, at its full height
C6_Witness ==
    \E i \in BarIndices :
        /\ IsRecorded(bars[i])
        /\ bars[i].targetHeight > 0
        /\ now - bars[i].created > expandDuration
        /\ bars[i].height = bars[i].targetHeight * Cube(expandDuration)

C7_Value ==
    \A i \in BarIndices :
        IsRecorded(bars[i]) =>
            LET age == now - bars[i].created
                bar == bars[i]
            IN  /\ age <= expandDuration
                       => bar.height = bar.targetHeight * Easing(age)
                /\ age >= expandDuration
                       => bar.height = bar.targetHeight * Cube(expandDuration)
                /\ (easing = "linear" /\ bar.targetHeight = 50
                        /\ expandDuration = 200)
                       => /\ age = 100 => bar.height = 25 * Cube(200)
                          /\ age >= 200 => bar.height = 50 * Cube(200)

C7_Step ==
    \A i \in BarIndices : \A j \in 1..Len(bars') :
        (IsRecorded(bars[i]) /\ Scrolled(bars[i], bars'[j]))
            => bars'[j].height >= bars[i].height

\* C7: from one run of animate() to the next the height of a recorded bar
\* never decreases; after a run at time t it is targetHeight * easing((t -
\* t0) / D) while t <= t0 + D and exactly targetHeight from t0 + D on; with
\* linear easing, targetHeight 50 and D = 200 it is 25 at t0 + 100 and 50
\* from t0 + 200 on.
C7_Convergence ==
    /\ [][lastOp' \in {"animate", "soundAllowed"} => C7_Step]_vars
    /\ [](AfterTick => C7_Value)

\* the bar of the scenario, half grown 100 ms after its sample
C7_Witness ==
    /\ AfterTick
    /\ easing = "linear"
    /\ \E i \in BarIndices :
           /\ IsRecorded(bars[i])
           /\ bars[i].targetHeight = 50
           /\ now - bars[i].created = 100
           /\ bars[i].height = 25 * Cube(200)

\* C8: initialize() leaves exactly ceil(W / p) placeholders, p = barWidth +
\* barGap, of height 0 and width barWidth at 0, p, 2p, ... in that order:
\* 8 bars at 0, 13, ..., 91 for W = 100, barWidth 3, barGap 10.
C8_Seeding ==
    lastOp = "initialize" =>
        LET p == barWidth + barGap
            n == Len(bars)
        IN  /\ n * p >= width
            /\ n > 0 => (n - 1) * p < width
            /\ \A i \in 1..n :
                   bars[i] = [x |-> (i - 1) * p, y |-> 0, height |-> 0,
                              targetHeight |-> 0, created |-> 0,
                              status |-> "placeholder", width |-> barWidth]
            /\ (width = 100 /\ barWidth = 3 /\ barGap = 10)
                   => n = 8 /\ bars[8].x = 91

C8_Witness ==
    /\ lastOp = "initialize"
    /\ width = 100 /\ barWidth = 3 /\ barGap = 10
    /\ Len(bars) = 8
    /\ bars[2].x = 13

\* C9: whatever the timeline held, after initialize() it is the timeline
\* that initialize() builds from an empty one, and one more initialize()
\* would leave it as it is.
C9_Reset ==
    lastOp = "initialize" => (bars = Seeded(<<>>) /\ Seeded(bars) = bars)

\* initialize() has just discarded recorded bars
C9_Witness ==
    /\ lastOp = "initialize"
    /\ dropped > 0
    /\ Len(bars) > 0

NoneGranted == \A k \in 1..Len(requests) : requests[k] # "granted"

\* C10: every denial is reported exactly once and starts no new
\* acquisition (one request per start() call); as long as no request has
\* been granted no tick is pending, no audio source is attached, and the
\* timeline is empty or the seeded placeholders.
C10_DenialNonFatal ==
    /\ errorLog = Cardinality({k \in 1..Len(requests) : requests[k] = "denied"})
    /\ Len(requests) = startCalls
    /\ NoneGranted =>
           /\ pending = {}
           /\ ~analyser
           /\ \A i \in BarIndices : ~IsRecorded(bars[i])
           /\ bars = <<>> \/ bars = Seeded(<<>>)

\* the request was denied and operations have gone on since
C10_Witness ==
    /\ \E k \in 1..Len(requests) : requests[k] = "denied"
    /\ NoneGranted
    /\ errorLog = 1
    /\ Len(bars) > 0
    /\ lastOp = "stop"

Abs(n) == IF n < 0 THEN -n ELSE n

\* the largest absolute value of the samples in buf (0 for none)
AbsPeak(buf) ==
    IF Len(buf) = 0 THEN 0
    ELSE CHOOSE m \in {Abs(buf[i]) : i \in 1..Len(buf)} :
             \A i \in 1..Len(buf) : Abs(buf[i]) <= m

\* this run of animate() has read a buffer and appended a bar
Sampled ==
    /\ lastOp' = "animate"
    /\ lastDataCollectionTime < now
    /\ lastDataCollectionTime' = now
    /\ Len(bars') > 0
    /\ Fresh(bars'[Len(bars')])

\* C11: the appended recorded bar has targetHeight = floor(peak *
\* surfaceHeight * 1.2), peak being the largest absolute value of the
\* samples just read (samples in hundredths).
C11_PeakExtraction ==
    [][Sampled =>
          bars'[Len(bars')].targetHeight
              = (AbsPeak(frequencyArray') * height * 12) \div 1000]_vars

\* the rectangle that the last run of animate() painted for bar, which has
\* been scrolled since
RectOf(bar) ==
    CHOOSE r \in {frame[k] : k \in 1..Len(frame)} : r.x = bar.x + scrollSpeed

IsCentredDot(r) == r.h = 2 * HeightDen /\ r.y = (height - 2) * HeightDen

C12_SilentDots ==
    \A i \in BarIndices :
        (IsRecorded(bars[i]) /\ bars[i].targetHeight = 0)
            => /\ \E k \in 1..Len(frame) : frame[k].x = bars[i].x + scrollSpeed
               /\ IsCentredDot(RectOf(bars[i]))

\* C12: a buffer whose peak is 0 still gives an appended recorded bar, with
\* targetHeight 0, and every run of animate() paints such a bar as the
\* 2-unit centred dot, for every noise threshold the constructor accepts.
C12_ZeroPeak ==
    /\ [][(Sampled /\ AbsPeak(frequencyArray') = 0)
              => bars'[Len(bars')].targetHeight = 0]_vars
    /\ [](AfterTick => C12_SilentDots)

Awaiting == \E k \in 1..Len(requests) : requests[k] = "pending"

\* C13: after start() the tick loop is live while the stream request is
\* still open and no audio source is attached, no recorded bar exists before
\* the attachment, and the attachment starts no further loop.
C13_LoopBeforeAttach ==
    /\ []((Awaiting /\ ~analyser /\ ~stopped) => pending # {})
    /\ [](~analyser => \A i \in BarIndices : ~IsRecorded(bars[i]))
    /\ [][lastOp' = "soundAllowed"
              => Cardinality(pending') = Cardinality(pending)]_vars

BelowThreshold(bar) == bar.targetHeight * 100 < noiseThreshold * height

C14_Rendered(bar) ==
    /\ \E k \in 1..Len(frame) : frame[k].x = bar.x + scrollSpeed
    /\ LET r == RectOf(bar)
       IN  /\ r.w = bar.width
           /\ ~IsRecorded(bar)
                  => IsCentredDot(r) /\ r.colour = "blackDotColor"
           /\ (IsRecorded(bar) /\ BelowThreshold(bar))
                  => IsCentredDot(r) /\ r.colour = "dotColor"
           /\ (IsRecorded(bar) /\ ~BelowThreshold(bar))
                  => /\ r.h = bar.height
                     /\ r.y = height * HeightDen - bar.height
                     /\ r.colour = "barColor"

\* C14: in the frame painted by a run of animate(), a recorded bar whose
\* targetHeight is below noiseThreshold * surfaceHeight is the 2-unit dot at
\* y = surfaceHeight / 2 - 1 in the quiet-signal colour whatever its current
\* height, a recorded bar at or above the threshold is a rectangle of height
\* currentHeight at y = surfaceHeight / 2 - currentHeight / 2 in the bar
\* colour, and a placeholder is the 2-unit dot in the placeholder colour (y
\* over 2 * HeightDen, heights over HeightDen).
C14_ThresholdRendering ==
    /\ AfterTick => \A i \in BarIndices : C14_Rendered(bars[i])
    /\ lastOp = "initialize"
           => /\ Len(frame) = Len(bars)
              /\ \A i \in BarIndices :
                     /\ frame[i].x = bars[i].x
                     /\ IsCentredDot(frame[i])
                     /\ frame[i].colour = "blackDotColor"

\* one frame with a quiet recorded bar as a dot and a growing loud one as a
\* rectangle
C14_Witness ==
    /\ AfterTick
    /\ noiseThreshold = 1
    /\ \E i \in BarIndices :
           /\ IsRecorded(bars[i]) /\ bars[i].targetHeight = 0
           /\ RectOf(bars[i]).colour = "dotColor"
    /\ \E i \in BarIndices :
           /\ IsRecorded(bars[i]) /\ bars[i].targetHeight = 50
           /\ bars[i].height > 0
           /\ RectOf(bars[i]).colour = "barColor"

Granted == {k \in 1..Len(requests) : requests[k] = "granted"}

OneLoop ==
    /\ Cardinality(pending) <= 1
    /\ pending # {} => pending = {animationFrameId}

\* C15 as claimed: whatever start(), grants, ticks and stop() have happened,
\* at most one animation frame callback is pending and animationFrameId is
\* its handle.
C15_OneLoopAlways == OneLoop

\* C15, amended: as long as at most one stream request has been granted, at
\* most one animation frame callback is pending and animationFrameId is its
\* handle.
C15_OneLoop == Cardinality(Granted) <= 1 => OneLoop

\* start() was called twice, one request was granted, the loop is live
C15_Witness ==
    /\ startCalls = 2
    /\ Cardinality(Granted) = 1
    /\ lastOp = "animate"
    /\ pending = {animationFrameId}

\* the for loop of the coming run of animate() is left by an exception (a
\* bar appended in that run has age 0 and does not make the easing throw)
TickThrows == ThrowIndex(bars) > 0

\* every bar of the next state stands d to the left of a bar of this state
\* or of the right edge, where a bar is appended
ShiftedBy(d) ==
    \A j \in 1..Len(bars') :
        \/ bars'[j].x + d = width
        \/ \E i \in BarIndices : bars'[j].x + d = bars[i].x

\* C16: when an exception escapes a run of animate() (the configured easing
\* function throws at some bar), no next run is scheduled, the timeline
\* still has increasing positions and the spacing of recorded bars, and
\* every bar has been shifted by the same amount.
C16_FatalButClean ==
    [][(lastOp' = "animate" /\ TickThrows)
          => /\ pending' = {}
             /\ \A i \in 1..(Len(bars') - 1) : bars'[i].x < bars'[i + 1].x
             /\ C3_Spacing'
             /\ \E d \in {0, scrollSpeed} : ShiftedBy(d)]_vars

Ordered ==
    \A i \in 1..(Len(bars) - 1) :
        /\ bars[i].x < bars[i + 1].x
        /\ bars[i].created <= bars[i + 1].created

\* the bars of the next state are the bars of this state from index k + 1
\* on, in their order, followed by at most one appended bar
HeadRemoved(k) ==
    /\ Len(bars') - (Len(bars) - k) \in {0, 1}
    /\ \A j \in 1..(Len(bars) - k) : Scrolled(bars[k + j], bars'[j])
    /\ Len(bars') > Len(bars) - k => Fresh(bars'[Len(bars')])

\* C17: in every state the positions increase strictly from the first bar
\* to the last and the creation times do not decrease, so the newest bar is
\* the last; a run of animate() removes bars only from the front and keeps
\* the order of the bars that stay.
C17_Ordering ==
    /\ []Ordered
    /\ [][AfterTick' => \E k \in 0..Len(bars) : HeadRemoved(k)]_vars

\* a run of animate() has appended a bar and removed the bar before it
C17_Witness ==
    /\ lastOp = "animate"
    /\ Len(bars) = 1
    /\ IsRecorded(bars[1])
    /\ bars[1].created = now
    /\ bars[1].x = width - scrollSpeed

\* bar c is bar b after one shift; no field but x, height and y differs
ShiftedOnce(b, c) ==
    c = [b EXCEPT !.x = @ - scrollSpeed, !.height = c.height, !.y = c.y]

\* C18: one run of animate() moves every bar that was in the timeline, and
\* the bar it appends, to the left by scrollSpeed exactly once; the bars it
\* removes are the ones that one shift takes off the surface, no bar that
\* stays is passed over or shifted twice, and no field of a bar other than
\* x, height and y changes.
C18_UniformScroll ==
    [][AfterTick' =>
        LET n == Len(bars')
            appended == IF n > 0 /\ Fresh(bars'[n]) THEN 1 ELSE 0
            culled == Len(bars) + appended - n
        IN  /\ culled \in 0..Len(bars)
            /\ \A i \in 1..culled : bars[i].x - scrollSpeed + bars[i].width < 0
            /\ \A j \in 1..(n - appended) : ShiftedOnce(bars[culled + j], bars'[j])
            /\ appended = 1 =>
                   ShiftedOnce([Placeholder(0) EXCEPT
                                   !.x = width, !.status = "recorded",
                                   !.created = now,
                                   !.targetHeight = bars'[n].targetHeight],
                               bars'[n])]_vars

\* a run of animate() has shifted a placeholder and the bar it appended
C18_Witness ==
    /\ lastOp = "animate"
    /\ Len(bars) = 2
    /\ bars[1].status = "placeholder"
    /\ bars[1].x = -scrollSpeed
    /\ IsRecorded(bars[2])
    /\ bars[2].x = width - scrollSpeed

\* the loop runs with the audio source attached, the timeline is empty and
\* the clock can still pass the sample interval
EmptyWhileRunning ==
    /\ analyser
    /\ pending # {}
    /\ bars = <<>>
    /\ now + 2 * timeOffset <= MaxTime

\* C19: sampling does not stall: when the loop runs with the audio source
\* attached and the timeline is empty (every bar removed before the sample
\* interval elapsed, start() without initialize(), or a canvas of width 0),
\* a recorded bar is appended later on, unless the loop is stopped.
C19_NeverStalls ==
    EmptyWhileRunning ~> (pending = {} \/ \E i \in BarIndices : IsRecorded(bars[i]))

\* C20: in every state any two adjacent bars, of either kind, are at least
\* barWidth + barGap apart in position and every position lies in
\* [-barWidth, width]; hence the number of bars is at most
\* floor((width + barWidth) / (barWidth + barGap)) + 1, however long the
\* loop runs.
C20_Bounded ==
    /\ \A i \in 1..(Len(bars) - 1) :
           bars[i + 1].x - bars[i].x >= barWidth + barGap
    /\ \A i \in BarIndices : bars[i].x >= -barWidth /\ bars[i].x <= width
    /\ Len(bars) <= ((width + barWidth) \div (barWidth + barGap)) + 1

\* the largest number of bars, after a run of animate() on a canvas that
\* has room for a bar
C20_Witness ==
    /\ AfterTick
    /\ width > 0
    /\ Len(bars) = ((width + barWidth) \div (barWidth + barGap)) + 1
====
